---- MODULE Spec2Model ----
(***************************************************************************)
(* Model of the Database class of sqlite3-tools (the latest revision of   *)
(* the class, the one with getTable and deleteRowByID).                    *)
(*                                                                         *)
(* JavaScript runs one synchronous segment at a time, so every public      *)
(* method is modelled by the segment that runs when it is called (its      *)
(* validation and the statement it hands to the engine) and by the engine  *)
(* callback that runs later.  The engine is the sqlite3 connection: a      *)
(* queue of statements, each executed atomically, after which its callback *)
(* runs.                                                                   *)
(***************************************************************************)
EXTENDS Integers, Sequences, FiniteSets, TLC

VARIABLES
  tables,   \* Database.tables: the in-memory registry, an array of TableModel
  phys,     \* the engine's physical tables, keyed by case-folded name
  queue,    \* statements handed to the engine whose callback has not run yet
  ret,      \* the result delivered to a caller by the last step (op = "none" if none)
  calls     \* number of public operations issued so far

vars == <<tables, phys, queue, ret, calls>>

(***************************************************************************)
(* Bounds of the model.                                                    *)
(***************************************************************************)
MaxCalls == 3     \* public operations issued in one behaviour
MaxCols == 2      \* columns of a declared table model
MaxBatch == 2     \* elements of a createTables / insertRows batch
MaxPending == 2   \* statements waiting in the engine at the same time

(***************************************************************************)
(* JavaScript values.  Numbers are counted in halves (n = 5 is 2.5) so     *)
(* that data % 1 and Math.floor are computed, not assumed.                 *)
(***************************************************************************)
Val(k, n, s) == [kind |-> k, n |-> n, s |-> s]
Undefined == Val("undefined", 0, "")
Null == Val("null", 0, "")
NaN == Val("nan", 0, "")
Bool(b) == Val("boolean", IF b THEN 1 ELSE 0, "")
Str(t) == Val("string", 0, t)
Num(h) == Val("number", h, "")
DateMs(ms) == Val("date", ms, "")
Obj(json) == Val("object", 0, json)
Arr(json) == Val("array", 0, json)
Thrown == Val("throw", 0, "TypeError")

\* typeof data
TypeOf(v) ==
  CASE v.kind = "undefined" -> "undefined"
    [] v.kind = "boolean" -> "boolean"
    [] v.kind = "string" -> "string"
    [] v.kind \in {"number", "nan"} -> "number"
    [] OTHER -> "object"

\* data % 1 === 0
IsIntegral(v) == v.kind = "number" /\ v.n % 2 = 0

\* A Promise object, and what JavaScript makes of one where a plain value is expected.
PromiseResolve(v) == [isPromise |-> TRUE, value |-> v]
ToBoolean(x) == IF x.isPromise THEN TRUE ELSE x.value
TemplateString(x) == IF x.isPromise THEN "[object Promise]" ELSE x.value

(***************************************************************************)
(* Type Mapper                                                             *)
(***************************************************************************)
columnTypeToSqlType(type) ==
  PromiseResolve(
    CASE type = "boolean" -> "BOOLEAN"
      [] type = "string" -> "TEXT"
      [] type = "int" -> "INTEGER"
      [] type = "real" -> "REAL"
      [] type = "date" -> "DATE"
      [] type = "object" -> "TEXT"
      [] type = "array" -> "TEXT"
      [] OTHER -> "TEXT")

(***************************************************************************)
(* Row Validator                                                           *)
(***************************************************************************)
isDataTypesValid(column, data) ==
  LET dataType == TypeOf(data) IN
  IF dataType = "undefined" /\ ~column.required THEN PromiseResolve(TRUE)
  ELSE PromiseResolve(
    CASE column.type = "array" -> data.kind = "array"
      [] column.type = "object" -> dataType = "object"
      [] column.type = "date" -> data.kind = "date"
      [] column.type = "boolean" -> dataType = "boolean"
      [] column.type = "int" -> dataType = "number" /\ IsIntegral(data)
      [] column.type = "real" -> dataType = "number"
      [] column.type = "string" -> dataType = "string"
      [] OTHER -> FALSE)

(***************************************************************************)
(* Schema Registry                                                         *)
(***************************************************************************)
TableModel(name, columns) == [name |-> name, columns |-> columns]
NoTable == TableModel("", <<>>)

\* this.tables.some(t => t.name === tableName)
IsRegistered(name) == \E i \in 1..Len(tables) : tables[i].name = name

\* this.tables.find(t => t.name === tableName): the first match, or undefined
getTableModel(name) ==
  IF IsRegistered(name)
  THEN tables[CHOOSE i \in 1..Len(tables) :
                /\ tables[i].name = name
                /\ \A j \in 1..(i - 1) : tables[j].name # name]
  ELSE NoTable

\* a registration that keeps the name but loses the declared columns
Registered_WithoutColumns(registry, table) ==
  Append(registry, TableModel(table.name, <<>>))

\* this.tables.push(table)
Registered(registry, table) == Append(registry, table)

\* table.columns.some(column => column.name === 'id')
HasReservedColumn(table) ==
  \E i \in 1..Len(table.columns) : table.columns[i].name = "id"

\* a createTable that never looks for repeated column names
HasDuplicateColumns_Never(table) == FALSE

\* table.columns.some((column, index) => table.columns.findIndex(c => c.name === column.name) !== index)
HasDuplicateColumns(table) ==
  \E i, j \in 1..Len(table.columns) :
    i < j /\ table.columns[i].name = table.columns[j].name

(***************************************************************************)
(* The engine.  A statement is a record; sqlite3 resolves table names      *)
(* without regard to case, the registry compares them as strings.          *)
(***************************************************************************)
NoSelect == [columns |-> <<>>, sortColumn |-> "", sortType |-> "ASC",
             limited |-> FALSE, limit |-> 0]

Stmt(kind, name) ==
  [kind |-> kind, name |-> name, cols |-> <<>>, names |-> <<>>, values |-> <<>>,
   id |-> 0, select |-> NoSelect]

\* the engine's identifier comparison: ASCII letters are folded to lower case
Fold(name) ==
  CASE name = "T" -> "t"
    [] name = "U" -> "u"
    [] OTHER -> name

PhysColumn(name, decl, notnull) == [name |-> name, decl |-> decl, notnull |-> notnull]

\* `${column.name} ${this.columnTypeToSqlType(column.type)}${column.required ? ' NOT NULL' : ''}`
ColumnDefinition(column) ==
  PhysColumn(column.name, TemplateString(columnTypeToSqlType(column.type)), column.required)

\* CREATE TABLE IF NOT EXISTS name (id INTEGER PRIMARY KEY, ...columns)
CreateStatement(table) ==
  [Stmt("create", table.name) EXCEPT
     !.cols = <<PhysColumn("id", "INTEGER PRIMARY KEY", FALSE)>>
              \o [i \in 1..Len(table.columns) |-> ColumnDefinition(table.columns[i])]]

(***************************************************************************)
(* Calls and results.  A call is what a caller awaits; a result is the     *)
(* call together with what was resolved (kind "ok" is the empty object {}) *)
(* or "Rejected" when the promise is rejected by a thrown exception.       *)
(***************************************************************************)
NoArgs == [hasColumns |-> FALSE, columns |-> <<>>, hasSort |-> FALSE,
           sortColumn |-> "", sortType |-> "ASC", hasLimit |-> FALSE, limit |-> 0]

Call(op, name) ==
  [op |-> op, name |-> name, columns |-> <<>>, models |-> <<>>, data |-> <<>>,
   batch |-> <<>>, idx |-> 0, id |-> 0, args |-> NoArgs, table |-> NoTable,
   awaited |-> TRUE]

\* what a failure message names: a column, the kind it got, a list of columns,
\* and the listing of the available columns with their types
Detail(column, got, names) ==
  [column |-> column, got |-> got, names |-> names, listing |-> <<>>]
NoDetail == Detail("", "", <<>>)

Result(call, kind, detail, rows) ==
  [op |-> call.op, name |-> call.name, columns |-> call.columns,
   models |-> call.models, data |-> call.data, batch |-> call.batch,
   idx |-> call.idx, id |-> call.id, args |-> call.args, table |-> call.table,
   kind |-> kind, column |-> detail.column, got |-> detail.got,
   names |-> detail.names, listing |-> detail.listing, rows |-> rows]

Fail(call, kind) == Result(call, kind, NoDetail, <<>>)
Ok(call) == Result(call, "ok", NoDetail, <<>>)
NoRet == Fail(Call("none", ""), "none")

\* what a step delivers: nothing when nobody awaits the call
Deliver(call, result) == IF call.awaited THEN result ELSE NoRet

Pending(stmt, serialized, call) ==
  [stmt |-> stmt, serialized |-> serialized, call |-> call]

(***************************************************************************)
(* Table Manager: createTable                                              *)
(***************************************************************************)
\* the checks made before the engine is touched, in the order of the code
createTableCheck(table) ==
  IF HasReservedColumn(table) THEN "ReservedColumnName"
  ELSE IF IsRegistered(table.name) THEN "TableAlreadyExists"
  ELSE IF HasDuplicateColumns(table) THEN "DuplicateColumnName"
  ELSE "ok"

createTableCall(table, awaited) ==
  [Call("createTable", table.name) EXCEPT
     !.columns = table.columns, !.table = table, !.awaited = awaited]

\* this.db.serialize(() => this.db.run(query, callback))
createTablePending(table, awaited) ==
  Pending(CreateStatement(table), TRUE, createTableCall(table, awaited))

(***************************************************************************)
(* Value Codec: encode                                                     *)
(***************************************************************************)
\* String(number) of a number counted in halves
NumberText(h) ==
  LET a == IF h < 0 THEN 0 - h ELSE h IN
  (IF h < 0 THEN "-" ELSE "") \o ToString(a \div 2) \o (IF a % 2 = 1 THEN ".5" ELSE "")

\* Date.prototype.toISOString of a time within the first second of the epoch
ISOString(ms) ==
  "1970-01-01T00:00:00."
    \o (IF ms < 10 THEN "00" ELSE IF ms < 100 THEN "0" ELSE "") \o ToString(ms) \o "Z"

\* JSON.stringify(value); an object or an array is held as its JSON text
JSONStringify(v) ==
  CASE v.kind = "string" -> "\"" \o v.s \o "\""
    [] v.kind = "number" -> NumberText(v.n)
    [] v.kind = "boolean" -> (IF v.n = 1 THEN "true" ELSE "false")
    [] v.kind = "date" -> "\"" \o ISOString(v.n) \o "\""
    [] v.kind \in {"object", "array"} -> v.s
    [] OTHER -> "null"

\* Math.floor(value), after ToNumber
MathFloor(v) ==
  CASE v.kind = "number" -> Num(2 * (v.n \div 2))
    [] v.kind = "boolean" -> Num(2 * v.n)
    [] v.kind = "null" -> Num(0)
    [] v.kind = "date" -> Num(2 * v.n)
    [] OTHER -> NaN

\* dataColumn % 1 !== 0
HasRemainder(v) ==
  CASE v.kind = "number" -> v.n % 2 # 0
    [] v.kind \in {"boolean", "null", "date"} -> FALSE
    [] OTHER -> TRUE

\* data[column.name]
DataColumn(data, name) == IF name \in DOMAIN data THEN data[name] ELSE Undefined

\* the callback of table.columns.map in insertRow
Encode(column, dataColumn) ==
  IF dataColumn = Undefined THEN Str("NULL")
  ELSE CASE column.type \in {"array", "object"} -> Str(JSONStringify(dataColumn))
         [] column.type = "date" ->
              IF dataColumn.kind = "date" THEN Str(ISOString(dataColumn.n)) ELSE Thrown
         [] column.type = "int" -> MathFloor(dataColumn)
         [] OTHER -> dataColumn

(***************************************************************************)
(* Row Manager: insertRow                                                  *)
(***************************************************************************)
\* an insertRow that never looks for missing required columns
IsMissingRequired_Never(column, data) == FALSE

\* !(column.name in data) && column.required
IsMissingRequired(column, data) == column.name \notin DOMAIN data /\ column.required

\* !this.isDataTypesValid(column, dataColumn)
IsRejectedByValidator(column, dataColumn) ==
  ~ToBoolean(isDataTypesValid(column, dataColumn))

\* the actual kind named in the message of an invalid column
GotKind(column, dataColumn) ==
  IF column.type = "int" /\ HasRemainder(dataColumn) THEN "real" ELSE TypeOf(dataColumn)

Check(kind, detail) == [kind |-> kind, detail |-> detail]
RowOk == Check("ok", NoDetail)

\* for (const column of table.columns) { ... }: the first column that fails, from index i on
RECURSIVE validateRow(_, _, _)
validateRow(columns, data, i) ==
  IF i > Len(columns) THEN RowOk
  ELSE IF IsMissingRequired(columns[i], data)
    THEN Check("MissingRequiredColumn", Detail(columns[i].name, "", <<>>))
  ELSE IF IsRejectedByValidator(columns[i], DataColumn(data, columns[i].name))
    THEN Check("InvalidColumnType",
               Detail(columns[i].name,
                      GotKind(columns[i], DataColumn(data, columns[i].name)), <<>>))
  ELSE validateRow(columns, data, i + 1)

\* const values = table.columns.map(...)
EncodeRow(table, data) ==
  [i \in 1..Len(table.columns) |->
     Encode(table.columns[i], DataColumn(data, table.columns[i].name))]

\* INSERT INTO name (columns) VALUES (?, ...), with the values bound
InsertStatement(table, data) ==
  [Stmt("insert", table.name) EXCEPT
     !.names = [i \in 1..Len(table.columns) |-> table.columns[i].name],
     !.values = EncodeRow(table, data)]

\* The part of insertRow that runs before the engine is reached: the kind of
\* the result it returns, or "ok" when the statement is to be issued.
insertRowCheck(name, data) ==
  LET table == getTableModel(name) IN
  IF ~IsRegistered(name) THEN Check("TableNotFound", NoDetail)
  ELSE LET v == validateRow(table.columns, data, 1) IN
       IF v.kind # "ok" THEN v
       ELSE IF \E i \in 1..Len(table.columns) : EncodeRow(table, data)[i] = Thrown
         THEN Check("Rejected", NoDetail)
       ELSE RowOk

(***************************************************************************)
(* Row Manager: getTable, before the engine is reached                     *)
(***************************************************************************)
ColumnNames(table) == [i \in 1..Len(table.columns) |-> table.columns[i].name]

Includes(seq, x) == \E i \in 1..Len(seq) : seq[i] = x

\* a filter that stops at the first element it keeps
NotIncluded_FirstOnly(seq, others) ==
  IF \E i \in 1..Len(seq) : ~Includes(others, seq[i])
  THEN <<seq[CHOOSE i \in 1..Len(seq) :
               /\ ~Includes(others, seq[i])
               /\ \A j \in 1..(i - 1) : Includes(others, seq[j])]>>
  ELSE <<>>

\* seq.filter(x => !others.includes(x))
RECURSIVE NotIncluded(_, _)
NotIncluded(seq, others) ==
  IF seq = <<>> THEN <<>>
  ELSE (IF Includes(others, Head(seq)) THEN <<>> ELSE <<Head(seq)>>)
         \o NotIncluded(Tail(seq), others)

\* columnsName === undefined ? tableColumnsName : columnsName
RequestedColumns(table, args) ==
  IF args.hasColumns THEN args.columns ELSE ColumnNames(table)

\* a limit check that refuses 0 only
IsInvalidLimit_ZeroOnly(args) == args.hasLimit /\ args.limit = 0

\* limit !== undefined && limit < 1
IsInvalidLimit(args) == args.hasLimit /\ args.limit < 1

\* sort?.columnName: undefined and the empty string are falsy
HasSortColumn(args) == args.hasSort /\ args.sortColumn # ""

\* table.columns.map(column => `${column.name} (${column.type})`)
AvailableColumns(table) ==
  [i \in 1..Len(table.columns) |-> <<table.columns[i].name, table.columns[i].type>>]

\* the message of an unknown column: the names it quotes, then the listing
UnknownColumn(table, column, names) ==
  Check("UnknownColumn",
        [Detail(column, "", names) EXCEPT !.listing = AvailableColumns(table)])

getTableCheck(name, args) ==
  LET table == getTableModel(name)
      columnsNotFound == NotIncluded(RequestedColumns(table, args), ColumnNames(table))
  IN
  IF ~IsRegistered(name) THEN Check("TableNotFound", NoDetail)
  ELSE IF IsInvalidLimit(args) THEN Check("InvalidLimit", NoDetail)
  ELSE IF Len(columnsNotFound) > 0
    THEN UnknownColumn(table, "", columnsNotFound)
  ELSE IF HasSortColumn(args) /\ ~Includes(ColumnNames(table), args.sortColumn)
    THEN UnknownColumn(table, args.sortColumn, <<args.sortColumn>>)
  ELSE Check("ok", NoDetail)

\* a query that never orders by the requested column
SelectStatement_Unsorted(table, args) ==
  [Stmt("select", table.name) EXCEPT
     !.select = [columns |-> RequestedColumns(table, args),
                 sortColumn |-> "rowID",
                 sortType |-> "ASC",
                 limited |-> args.hasLimit,
                 limit |-> args.limit]]

\* SELECT rowID AS id, columns FROM name ORDER BY ... [LIMIT n]
SelectStatement(table, args) ==
  [Stmt("select", table.name) EXCEPT
     !.select = [columns |-> RequestedColumns(table, args),
                 sortColumn |-> IF HasSortColumn(args) THEN args.sortColumn ELSE "rowID",
                 sortType |-> IF HasSortColumn(args) THEN args.sortType ELSE "ASC",
                 limited |-> args.hasLimit,
                 limit |-> args.limit]]

\* SELECT COUNT(*) AS count FROM name WHERE rowID=id, DELETE FROM name WHERE rowID=id
RowStatement(kind, name, id) == [Stmt(kind, name) EXCEPT !.id = id]

(***************************************************************************)
(* The engine: what each statement does to the physical tables.            *)
(***************************************************************************)
PhysTable(cols, rows) == [cols |-> cols, rows |-> rows]

Exists(name) == Fold(name) \in DOMAIN phys

PhysColumnNames(t) == {phys[t].cols[i].name : i \in 1..Len(phys[t].cols)}

\* a parameter as sqlite3 binds it: booleans as integers, NaN as NULL, a Date
\* as its time, any other object as its string form
Bind(v) ==
  CASE v.kind = "boolean" -> Num(2 * v.n)
    [] v.kind = "nan" -> Null
    [] v.kind = "date" -> Num(2 * v.n)
    [] v.kind \in {"object", "array"} -> Str("[object Object]")
    [] OTHER -> v

\* the value the statement gives to a column of the table
InsertedValue(stmt, column) ==
  IF \E i \in 1..Len(stmt.names) : stmt.names[i] = column
  THEN Bind(stmt.values[CHOOSE i \in 1..Len(stmt.names) : stmt.names[i] = column])
  ELSE Null

\* CREATE TABLE fails on a repeated column name (the id column included)
CreateFails(stmt) ==
  \E i, j \in 1..Len(stmt.cols) : i < j /\ stmt.cols[i].name = stmt.cols[j].name

\* INSERT fails without the table, with an empty column list, with a column
\* the table does not have, and on a NULL in a NOT NULL column
InsertFails(stmt) ==
  \/ ~Exists(stmt.name)
  \/ Len(stmt.names) = 0
  \/ \E i \in 1..Len(stmt.names) : stmt.names[i] \notin PhysColumnNames(Fold(stmt.name))
  \/ \E i \in 1..Len(phys[Fold(stmt.name)].cols) :
       /\ phys[Fold(stmt.name)].cols[i].notnull
       /\ InsertedValue(stmt, phys[Fold(stmt.name)].cols[i].name) = Null

\* rowid of a new row: one more than the largest in the table
NextRowId(rows) ==
  IF rows = <<>> THEN 1
  ELSE 1 + (CHOOSE m \in {rows[i].id : i \in 1..Len(rows)} :
              \A i \in 1..Len(rows) : rows[i].id <= m)

NewRow(t, stmt) ==
  [id |-> NextRowId(phys[t].rows),
   vals |-> [c \in PhysColumnNames(t) \ {"id"} |-> InsertedValue(stmt, c)]]

\* a DELETE that removes nothing
WithoutRow_KeepsAll(rows, id) == rows

\* rows.filter(row => row.id !== id)
RECURSIVE WithoutRow(_, _)
WithoutRow(rows, id) ==
  IF rows = <<>> THEN <<>>
  ELSE (IF Head(rows).id = id THEN <<>> ELSE <<Head(rows)>>) \o WithoutRow(Tail(rows), id)

CountRows(rows, id) == Cardinality({i \in 1..Len(rows) : rows[i].id = id})

\* a function without one element of its domain
Without(f, k) == [x \in DOMAIN f \ {k} |-> f[x]]

With(f, k, v) == [x \in DOMAIN f \cup {k} |-> IF x = k THEN v ELSE f[x]]

(***************************************************************************)
(* The engine: SELECT.  Values compare as sqlite3 compares them: NULL,     *)
(* then numbers, then text in byte order.                                  *)
(***************************************************************************)
\* the texts a cell of the model can hold, in byte order
Collation ==
  <<"1970-01-01T00:00:00.000Z", "1970-01-01T00:00:00.007Z", "NULL",
    "[object Object]", "asdf">>

TextRank(t) ==
  IF \E i \in 1..Len(Collation) : Collation[i] = t
  THEN CHOOSE i \in 1..Len(Collation) : Collation[i] = t
  ELSE 0

ClassRank(v) == CASE v.kind = "null" -> 0 [] v.kind = "number" -> 1 [] OTHER -> 2

SqlLess(a, b) ==
  \/ ClassRank(a) < ClassRank(b)
  \/ a.kind = "number" /\ b.kind = "number" /\ a.n < b.n
  \/ a.kind = "string" /\ b.kind = "string" /\ TextRank(a.s) < TextRank(b.s)

SortKey(row, column) == IF column = "rowID" THEN Num(2 * row.id) ELSE row.vals[column]

\* the orders ORDER BY column sortType allows (rows with equal keys in any order)
OrderedRows(rows, column, sortType) ==
  {[i \in 1..Len(rows) |-> rows[p[i]]] : p \in
     {q \in Permutations(1..Len(rows)) :
        \A i, j \in 1..Len(rows) :
          i < j =>
            IF sortType = "DESC"
            THEN ~SqlLess(SortKey(rows[q[i]], column), SortKey(rows[q[j]], column))
            ELSE ~SqlLess(SortKey(rows[q[j]], column), SortKey(rows[q[i]], column))}}

\* LIMIT n: a negative n is no limit
Limited(rows, select) ==
  IF select.limited /\ select.limit >= 0 /\ select.limit < Len(rows)
  THEN SubSeq(rows, 1, select.limit)
  ELSE rows

\* the row object sqlite3 hands to the callback of db.all
RowObject(row, select) ==
  [k \in {"id"} \cup {select.columns[i] : i \in 1..Len(select.columns)} |->
     IF k = "id" THEN Num(2 * row.id) ELSE row.vals[k]]

SelectFails(stmt) ==
  \/ ~Exists(stmt.name)
  \/ \E i \in 1..Len(stmt.select.columns) :
       stmt.select.columns[i] \notin PhysColumnNames(Fold(stmt.name))
  \/ /\ stmt.select.sortColumn # "rowID"
     /\ stmt.select.sortColumn \notin PhysColumnNames(Fold(stmt.name))

\* the results the query may give
SelectResults(stmt) ==
  {[i \in 1..Len(Limited(o, stmt.select)) |-> RowObject(Limited(o, stmt.select)[i], stmt.select)] :
     o \in OrderedRows(phys[Fold(stmt.name)].rows, stmt.select.sortColumn, stmt.select.sortType)}

(***************************************************************************)
(* Value Codec: decode                                                     *)
(***************************************************************************)
InvalidDate == Val("date", 0, "Invalid Date")

\* the values JSON text of the model can denote
JsonValues ==
  {Null, Bool(TRUE), Bool(FALSE), Str("asdf"), Str("NULL"),
   Obj("{\"hello\":\"world\"}"), Arr("[1,2,3]")}
    \cup {Num(h) : h \in 0..6}
    \cup {Str(ISOString(ms)) : ms \in {0, 7}}

\* JSON.parse(text)
JSONParseText(t) ==
  IF \E v \in JsonValues : JSONStringify(v) = t
  THEN CHOOSE v \in JsonValues : JSONStringify(v) = t
  ELSE Thrown

\* a decoder that hands the stored text back as it is
JSONParse_Text(v) == v

\* JSON.parse(columnValue): the argument is first turned into a string
JSONParse(v) ==
  CASE v.kind = "null" -> Null
    [] v.kind = "number" -> v
    [] OTHER -> JSONParseText(v.s)

\* Number(columnValue)
ToNumber(v) ==
  CASE v.kind = "number" -> v
    [] v.kind = "null" -> Num(0)
    [] v.kind = "string" /\ v.s = "" -> Num(0)
    [] v.kind = "string" /\ (\E h \in 0..6 : NumberText(h) = v.s) ->
         Num(CHOOSE h \in 0..6 : NumberText(h) = v.s)
    [] OTHER -> NaN

\* Boolean(columnValue)
ToBool(v) ==
  CASE v.kind = "null" -> Bool(FALSE)
    [] v.kind = "number" -> Bool(v.n # 0)
    [] OTHER -> Bool(v.s # "")

\* new Date(Date.parse(columnValue))
ParseDate(v) ==
  IF v.kind = "string" /\ (\E ms \in {0, 7} : ISOString(ms) = v.s)
  THEN DateMs(CHOOSE ms \in {0, 7} : ISOString(ms) = v.s)
  ELSE InvalidDate

\* table.columns.find(column => column.name == key)?.type
ColumnType(table, key) ==
  IF Includes(ColumnNames(table), key)
  THEN table.columns[CHOOSE i \in 1..Len(table.columns) :
                       /\ table.columns[i].name = key
                       /\ \A j \in 1..(i - 1) : table.columns[j].name # key].type
  ELSE "undefined"

\* the callback of Object.keys(rowResponse).forEach in getTable
Decode(table, key, columnValue) ==
  IF columnValue = Str("NULL") THEN Null
  ELSE CASE ColumnType(table, key) \in {"array", "object"} -> JSONParse(columnValue)
         [] ColumnType(table, key) \in {"int", "real"} -> ToNumber(columnValue)
         [] ColumnType(table, key) = "boolean" -> ToBool(columnValue)
         [] ColumnType(table, key) = "date" -> ParseDate(columnValue)
         [] OTHER -> columnValue

DecodeRow(table, row) == [k \in DOMAIN row |-> Decode(table, k, row[k])]

DecodeRows(table, rows) == [i \in 1..Len(rows) |-> DecodeRow(table, rows[i])]

\* JSON.parse threw while a row was decoded
DecodeThrows(table, rows) ==
  \E i \in 1..Len(rows) : \E k \in DOMAIN rows[i] : Decode(table, k, rows[i][k]) = Thrown

(***************************************************************************)
(* The inputs callers give.                                                *)
(***************************************************************************)
Column(name, type, required) == [name |-> name, type |-> type, required |-> required]

TableNames == {"t", "T"}

Columns ==
  {Column("b", "boolean", TRUE), Column("n", "int", FALSE), Column("id", "string", FALSE)}

ColumnLists == UNION {[1..k -> Columns] : k \in 0..MaxCols}

Models == {TableModel(name, columns) : name \in TableNames, columns \in ColumnLists}

\* the models of a createTables batch
BatchModels == {TableModel(name, <<>>) : name \in TableNames}

ModelBatches == UNION {[1..k -> BatchModels] : k \in 0..MaxBatch}

\* the values given for a key of the row data (5 halves is 2.5)
ValuesOf(key) ==
  IF key = "b" THEN {Undefined, Bool(TRUE), Str("asdf")} ELSE {Num(5)}

RowData ==
  UNION {{data \in [keys -> UNION {ValuesOf(k) : k \in keys}] :
            \A k \in keys : data[k] \in ValuesOf(k)} : keys \in SUBSET {"b", "n"}}

\* the rows of an insertRows batch
BatchRows == {[k \in {"b"} |-> Bool(TRUE)], [k \in {"n"} |-> Num(5)]}

RowBatches == UNION {[1..k -> BatchRows] : k \in 0..MaxBatch}

GetTableArgs ==
  {NoArgs,
   [NoArgs EXCEPT !.hasColumns = TRUE, !.columns = <<"n">>],
   [NoArgs EXCEPT !.hasColumns = TRUE, !.columns = <<"x", "n", "id">>],
   [NoArgs EXCEPT !.hasSort = TRUE, !.sortColumn = "n", !.sortType = "DESC"],
   [NoArgs EXCEPT !.hasSort = TRUE, !.sortColumn = "id"],
   [NoArgs EXCEPT !.hasSort = TRUE, !.sortColumn = "n", !.hasLimit = TRUE, !.limit = 1],
   [NoArgs EXCEPT !.hasLimit = TRUE, !.limit = 0],
   [NoArgs EXCEPT !.hasLimit = TRUE, !.limit = 1],
   [NoArgs EXCEPT !.hasColumns = TRUE, !.columns = <<"x">>, !.hasLimit = TRUE, !.limit = -1]}

RowIds == {1, 2}

(***************************************************************************)
(* The state machine.                                                      *)
(***************************************************************************)
Init ==
  /\ tables = <<>>
  /\ phys = <<>>
  /\ queue = <<>>
  /\ ret = NoRet
  /\ calls = 0

Remove(seq, i) == SubSeq(seq, 1, i - 1) \o SubSeq(seq, i + 1, Len(seq))

\* The connection runs a statement issued inside db.serialize only when every
\* earlier statement has completed; statements issued outside of it run in
\* parallel with each other, so any of them may complete first.
Executable(i) ==
  /\ i \in 1..Len(queue)
  /\ \A j \in 1..(i - 1) : ~queue[j].serialized
  /\ queue[i].serialized => i = 1

Issued == calls < MaxCalls /\ calls' = calls + 1

\* createTable(table)
CreateTable(table) ==
  /\ Issued
  /\ IF createTableCheck(table) # "ok"
     THEN /\ ret' = Fail(createTableCall(table, TRUE), createTableCheck(table))
          /\ UNCHANGED <<tables, phys, queue>>
     ELSE /\ Len(queue) < MaxPending
          /\ queue' = Append(queue, createTablePending(table, TRUE))
          /\ ret' = NoRet
          /\ UNCHANGED <<tables, phys>>

\* the callback of the CREATE TABLE statement
RunCreate(i) ==
  /\ Executable(i)
  /\ queue[i].stmt.kind = "create"
  /\ \E fails \in BOOLEAN :
       LET e == queue[i] IN
       IF fails \/ (~Exists(e.stmt.name) /\ CreateFails(e.stmt))
       THEN /\ ret' = Deliver(e.call, Fail(e.call, "EngineError"))
            /\ UNCHANGED <<tables, phys>>
       ELSE /\ phys' = IF Exists(e.stmt.name) THEN phys
                       ELSE With(phys, Fold(e.stmt.name), PhysTable(e.stmt.cols, <<>>))
            /\ tables' = Registered(tables, e.call.table)
            /\ ret' = Deliver(e.call, Ok(e.call))
  /\ queue' = Remove(queue, i)
  /\ UNCHANGED calls

\* tables.forEach(async (table) => { await this.createTable(table); ... }): the
\* statements of the models that pass the checks, in the order of the batch
RECURSIVE createTablesPending(_)
createTablesPending(models) ==
  IF models = <<>> THEN <<>>
  ELSE (IF createTableCheck(Head(models)) = "ok"
        THEN <<createTablePending(Head(models), FALSE)>> ELSE <<>>)
         \o createTablesPending(Tail(models))

\* createTables(models): resolve({}) runs as soon as forEach has started every createTable
CreateTables(models) ==
  /\ Issued
  /\ Len(queue) + Len(createTablesPending(models)) <= MaxPending
  /\ queue' = queue \o createTablesPending(models)
  /\ ret' = Ok([Call("createTables", "") EXCEPT !.models = models])
  /\ UNCHANGED <<tables, phys>>

insertRowCall(op, name, data) ==
  [Call(op, name) EXCEPT !.data = data, !.table = getTableModel(name)]

\* insertRow(tableName, data)
InsertRow(name, data) ==
  /\ Issued
  /\ LET chk == insertRowCheck(name, data)
         call == insertRowCall("insertRow", name, data)
     IN IF chk.kind # "ok"
        THEN /\ ret' = Result(call, chk.kind, chk.detail, <<>>)
             /\ UNCHANGED queue
        ELSE /\ Len(queue) < MaxPending
             /\ queue' = Append(queue, Pending(InsertStatement(call.table, data), TRUE, call))
             /\ ret' = NoRet
  /\ UNCHANGED <<tables, phys>>

\* a loop that reports success when an element fails before reaching the engine
insertRowsFrom_SwallowsFailure(call, next, q) ==
  IF next > Len(call.batch)
  THEN ret' = Ok(call) /\ queue' = q
  ELSE LET chk == insertRowCheck(call.name, call.batch[next])
           at == [call EXCEPT !.idx = next, !.data = call.batch[next],
                              !.table = getTableModel(call.name)]
       IN IF chk.kind = "ok"
          THEN /\ queue' = Append(q, Pending(InsertStatement(at.table, at.data), TRUE, at))
               /\ ret' = NoRet
          ELSE /\ queue' = q
               /\ ret' = Ok(at)

\* The loop of insertRows from element next on, with q the statements still pending:
\* the element's insertRow either returns at once or issues its statement.
insertRowsFrom(call, next, q) ==
  IF next > Len(call.batch)
  THEN ret' = Ok(call) /\ queue' = q
  ELSE LET chk == insertRowCheck(call.name, call.batch[next])
           at == [call EXCEPT !.idx = next, !.data = call.batch[next],
                              !.table = getTableModel(call.name)]
       IN CASE chk.kind = "ok" ->
                 /\ queue' = Append(q, Pending(InsertStatement(at.table, at.data), TRUE, at))
                 /\ ret' = NoRet
            [] chk.kind = "Rejected" ->
                 \* the async executor throws: its promise is rejected unhandled
                 \* and the promise of insertRows is never settled
                 /\ queue' = q
                 /\ ret' = Result(at, "NeverSettled", NoDetail, <<>>)
            [] OTHER ->
                 /\ queue' = q
                 /\ ret' = Result(at, chk.kind, chk.detail, <<>>)

\* insertRows(tableName, data)
InsertRows(name, batch) ==
  /\ Issued
  /\ Len(queue) < MaxPending
  /\ insertRowsFrom([Call("insertRows", name) EXCEPT !.batch = batch], 1, queue)
  /\ UNCHANGED <<tables, phys>>

\* the callback of the INSERT statement
RunInsert(i) ==
  /\ Executable(i)
  /\ queue[i].stmt.kind = "insert"
  /\ \E fails \in BOOLEAN :
       LET e == queue[i] IN
       IF fails \/ InsertFails(e.stmt)
       THEN /\ ret' = Fail(e.call, "EngineError")
            /\ queue' = Remove(queue, i)
            /\ UNCHANGED phys
       ELSE /\ phys' = [phys EXCEPT ![Fold(e.stmt.name)].rows =
                          Append(@, NewRow(Fold(e.stmt.name), e.stmt))]
            /\ IF e.call.op = "insertRows"
               THEN insertRowsFrom(e.call, e.call.idx + 1, Remove(queue, i))
               ELSE ret' = Ok(e.call) /\ queue' = Remove(queue, i)
  /\ UNCHANGED <<tables, calls>>

\* dropTable(tableName)
DropTable(name) ==
  /\ Issued
  /\ IF ~IsRegistered(name)
     THEN /\ ret' = Fail(Call("dropTable", name), "TableNotFound")
          /\ UNCHANGED queue
     ELSE /\ Len(queue) < MaxPending
          /\ queue' = Append(queue, Pending(Stmt("drop", name), FALSE, Call("dropTable", name)))
          /\ ret' = NoRet
  /\ UNCHANGED <<tables, phys>>

\* a callback that evicts the model whatever the engine reports
RunDrop_EvictsAlways(i) ==
  /\ Executable(i)
  /\ queue[i].stmt.kind = "drop"
  /\ \E fails \in BOOLEAN :
       LET e == queue[i] IN
       /\ tables' = SelectSeq(tables, LAMBDA t : t.name # e.call.name)
       /\ IF fails \/ ~Exists(e.stmt.name)
          THEN ret' = Fail(e.call, "EngineError") /\ UNCHANGED phys
          ELSE phys' = Without(phys, Fold(e.stmt.name)) /\ ret' = Ok(e.call)
  /\ queue' = Remove(queue, i)
  /\ UNCHANGED calls

\* the callback of the DROP TABLE statement
RunDrop(i) ==
  /\ Executable(i)
  /\ queue[i].stmt.kind = "drop"
  /\ \E fails \in BOOLEAN :
       LET e == queue[i] IN
       IF fails \/ ~Exists(e.stmt.name)
       THEN /\ ret' = Fail(e.call, "EngineError")
            /\ UNCHANGED <<tables, phys>>
       ELSE /\ phys' = Without(phys, Fold(e.stmt.name))
            /\ tables' = SelectSeq(tables, LAMBDA t : t.name # e.call.name)
            /\ ret' = Ok(e.call)
  /\ queue' = Remove(queue, i)
  /\ UNCHANGED calls

getTableCall(name, args) ==
  [Call("getTable", name) EXCEPT !.args = args, !.table = getTableModel(name)]

\* getTable(tableName, columnsName, sort, limit)
GetTable(name, args) ==
  /\ Issued
  /\ LET chk == getTableCheck(name, args)
         call == getTableCall(name, args)
     IN IF chk.kind # "ok"
        THEN /\ ret' = Result(call, chk.kind, chk.detail, <<>>)
             /\ UNCHANGED queue
        ELSE /\ Len(queue) < MaxPending
             /\ queue' = Append(queue, Pending(SelectStatement(call.table, args), FALSE, call))
             /\ ret' = NoRet
  /\ UNCHANGED <<tables, phys>>

\* the callback of the SELECT statement, and the decoding of its rows
RunSelect(i) ==
  /\ Executable(i)
  /\ queue[i].stmt.kind = "select"
  /\ \E fails \in BOOLEAN :
       LET e == queue[i] IN
       IF fails \/ SelectFails(e.stmt)
       THEN ret' = Fail(e.call, "EngineError")
       ELSE \E rows \in SelectResults(e.stmt) :
              ret' = IF DecodeThrows(e.call.table, rows)
                     THEN Fail(e.call, "Rejected")
                     ELSE Result(e.call, "ok", NoDetail, DecodeRows(e.call.table, rows))
  /\ queue' = Remove(queue, i)
  /\ UNCHANGED <<tables, phys, calls>>

deleteCall(name, id) == [Call("deleteRowByID", name) EXCEPT !.id = id]

\* deleteRowByID(tableName, id)
DeleteRowByID(name, id) ==
  /\ Issued
  /\ IF ~IsRegistered(name)
     THEN /\ ret' = Fail(deleteCall(name, id), "TableNotFound")
          /\ UNCHANGED queue
     ELSE /\ Len(queue) < MaxPending
          /\ queue' = Append(queue, Pending(RowStatement("count", name, id), FALSE,
                                            deleteCall(name, id)))
          /\ ret' = NoRet
  /\ UNCHANGED <<tables, phys>>

\* the callback of the SELECT COUNT(*) statement; a found row issues the DELETE
RunCount(i) ==
  /\ Executable(i)
  /\ queue[i].stmt.kind = "count"
  /\ \E fails \in BOOLEAN :
       LET e == queue[i] IN
       IF fails \/ ~Exists(e.stmt.name)
       THEN ret' = Fail(e.call, "EngineError") /\ queue' = Remove(queue, i)
       ELSE IF CountRows(phys[Fold(e.stmt.name)].rows, e.stmt.id) <= 0
       THEN ret' = Fail(e.call, "RowNotFound") /\ queue' = Remove(queue, i)
       ELSE /\ ret' = NoRet
            /\ queue' = Append(Remove(queue, i),
                               Pending(RowStatement("delete", e.stmt.name, e.stmt.id),
                                       FALSE, e.call))
  /\ UNCHANGED <<tables, phys, calls>>

\* the callback of the DELETE statement
RunDelete(i) ==
  /\ Executable(i)
  /\ queue[i].stmt.kind = "delete"
  /\ \E fails \in BOOLEAN :
       LET e == queue[i] IN
       IF fails \/ ~Exists(e.stmt.name)
       THEN ret' = Fail(e.call, "EngineError") /\ UNCHANGED phys
       ELSE /\ phys' = [phys EXCEPT ![Fold(e.stmt.name)].rows = WithoutRow(@, e.stmt.id)]
            /\ ret' = Ok(e.call)
  /\ queue' = Remove(queue, i)
  /\ UNCHANGED <<tables, calls>>

Next ==
  \/ \E table \in Models : CreateTable(table)
  \/ \E models \in ModelBatches : CreateTables(models)
  \/ \E name \in TableNames, data \in RowData : InsertRow(name, data)
  \/ \E name \in TableNames, batch \in RowBatches : InsertRows(name, batch)
  \/ \E name \in TableNames : DropTable(name)
  \/ \E name \in TableNames, args \in GetTableArgs : GetTable(name, args)
  \/ \E name \in TableNames, id \in RowIds : DeleteRowByID(name, id)
  \/ \E i \in 1..MaxPending : RunCreate(i)
  \/ \E i \in 1..MaxPending : RunInsert(i)
  \/ \E i \in 1..MaxPending : RunDrop(i)
  \/ \E i \in 1..MaxPending : RunSelect(i)
  \/ \E i \in 1..MaxPending : RunCount(i)
  \/ \E i \in 1..MaxPending : RunDelete(i)

Spec == Init /\ [][Next]_vars

(***************************************************************************)
(* The same operations on tables of structured values and dates: one name, *)
(* the columns and the rows of the demonstration script.                   *)
(***************************************************************************)
CodecModels ==
  {TableModel("t", <<Column("o", "object", FALSE), Column("a", "array", FALSE)>>),
   TableModel("t", <<Column("d", "date", FALSE)>>)}

CodecRows ==
  {[k \in {"o", "a"} |-> IF k = "o" THEN Obj("{\"hello\":\"world\"}") ELSE Arr("[1,2,3]")],
   [k \in {"a"} |-> Arr("[1,2,3]")],
   [k \in {"d"} |-> DateMs(7)],
   [k \in {"d"} |-> Str("asdf")]}

CodecBatches == UNION {[1..k -> CodecRows] : k \in 1..MaxBatch}

CodecNext ==
  \/ \E table \in CodecModels : CreateTable(table)
  \/ \E data \in CodecRows : InsertRow("t", data)
  \/ \E batch \in CodecBatches : InsertRows("t", batch)
  \/ GetTable("t", NoArgs)
  \/ \E i \in 1..MaxPending : RunCreate(i)
  \/ \E i \in 1..MaxPending : RunInsert(i)
  \/ \E i \in 1..MaxPending : RunSelect(i)

CodecSpec == Init /\ [][CodecNext]_vars

(***************************************************************************)
(* The row validator called on its own: every declared type, one it does   *)
(* not know, and a value of every kind.                                    *)
(***************************************************************************)
ValidatorTypes ==
  {"boolean", "string", "int", "real", "date", "object", "array", "blob"}

ValidatorValues ==
  {Undefined, Null, Bool(TRUE), Str("asdf"), Num(6), Num(5), DateMs(7),
   Obj("{\"hello\":\"world\"}"), Arr("[1,2,3]")}

\* await this.isDataTypesValid(column, data)
Validate(column, data) ==
  /\ ret' = Result([Call("isDataTypesValid", column.name) EXCEPT
                      !.columns = <<column>>, !.data = [k \in {column.name} |-> data]],
                   IF isDataTypesValid(column, data).value THEN "valid" ELSE "invalid",
                   NoDetail, <<>>)
  /\ UNCHANGED <<tables, phys, queue, calls>>

\* a column of every type, required or not
ValidatorColumns ==
  {Column("c", type, required) : type \in ValidatorTypes, required \in BOOLEAN}

ValidatorNext ==
  \E column \in ValidatorColumns, data \in ValidatorValues : Validate(column, data)

ValidatorSpec == Init /\ [][ValidatorNext]_vars

(***************************************************************************)
(* The same operations on tables of scalar columns, with rows that are     *)
(* valid for them: a value of the declared kind or none for every column.  *)
(***************************************************************************)
ScalarModels ==
  {TableModel("t", <<Column("s", "string", FALSE), Column("b", "boolean", FALSE)>>),
   TableModel("t", <<Column("n", "int", FALSE), Column("r", "real", FALSE)>>),
   TableModel("t", <<Column("d", "date", FALSE)>>)}

ScalarValuesOf(key) ==
  CASE key = "s" -> {Str("asdf"), Str("NULL")}
    [] key = "b" -> {Bool(TRUE), Bool(FALSE)}
    [] key = "n" -> {Num(6)}
    [] key = "r" -> {Num(5)}
    [] key = "d" -> {DateMs(7)}

ScalarRows ==
  UNION {{data \in [keys -> UNION {ScalarValuesOf(k) : k \in keys}] :
            \A k \in keys : data[k] \in ScalarValuesOf(k)} :
           keys \in {{}, {"s"}, {"b"}, {"s", "b"}, {"n", "r"}, {"d"}}}

ScalarNext ==
  \/ \E table \in ScalarModels : CreateTable(table)
  \/ \E data \in ScalarRows : InsertRow("t", data)
  \/ GetTable("t", NoArgs)
  \/ \E i \in 1..MaxPending : RunCreate(i)
  \/ \E i \in 1..MaxPending : RunInsert(i)
  \/ \E i \in 1..MaxPending : RunSelect(i)

ScalarSpec == Init /\ [][ScalarNext]_vars

(***************************************************************************)
(* Deletions issued without awaiting one another, on a table that holds    *)
(* two rows: the state after createTable({name: 't', columns: [{name: 'n', *)
(* type: 'int'}]}) and two insertRow('t', {n: 2.5}), all awaited.          *)
(***************************************************************************)
RaceTable == TableModel("t", <<Column("n", "int", FALSE)>>)

RaceRows ==
  [i \in 1..2 |->
     [id |-> i,
      vals |-> [c \in {"n"} |-> Bind(Encode(RaceTable.columns[1], Num(5)))]]]

RaceInit ==
  /\ tables = <<RaceTable>>
  /\ phys = [t \in {"t"} |-> PhysTable(CreateStatement(RaceTable).cols, RaceRows)]
  /\ queue = <<>>
  /\ ret = NoRet
  /\ calls = 0

RaceNext ==
  \/ \E id \in RowIds : DeleteRowByID("t", id)
  \/ GetTable("t", NoArgs)
  \/ \E i \in 1..MaxPending : RunCount(i)
  \/ \E i \in 1..MaxPending : RunDelete(i)
  \/ \E i \in 1..MaxPending : RunSelect(i)

RaceSpec == RaceInit /\ [][RaceNext]_vars

(***************************************************************************)
(* The properties checked.                                                 *)
(***************************************************************************)
\* the required columns of the table that the row data has no key for
MissingRequiredIn(table, data) ==
  {i \in 1..Len(table.columns) :
     table.columns[i].required /\ table.columns[i].name \notin DOMAIN data}

\* the rule table of the row validator: the kinds of value a logical type takes
KindMatches(type, v) ==
  CASE type = "boolean" -> v.kind = "boolean"
    [] type = "string" -> v.kind = "string"
    [] type = "int" -> v.kind = "number" /\ v.n % 2 = 0
    [] type = "real" -> v.kind = "number"
    [] type = "date" -> v.kind = "date"
    [] type = "object" -> v.kind = "object"
    [] type = "array" -> v.kind = "array"
    [] OTHER -> FALSE

\* the columns the row data gives a value of another kind than the declared type
WrongKindIn(table, data) ==
  {i \in 1..Len(table.columns) :
     /\ table.columns[i].name \in DOMAIN data
     /\ data[table.columns[i].name] # Undefined
     /\ ~KindMatches(table.columns[i].type, data[table.columns[i].name])}

\* the int columns the row data gives a number with a fractional part
FractionalIn(table, data) ==
  {i \in 1..Len(table.columns) :
     /\ table.columns[i].type = "int"
     /\ table.columns[i].name \in DOMAIN data
     /\ data[table.columns[i].name].kind = "number"
     /\ data[table.columns[i].name].n % 2 = 1}

First(S) == CHOOSE i \in S : \A j \in S : i <= j

\* an insertRow result for a registered table that the engine did not fail
InsertRowSettled(r) ==
  r.op = "insertRow" /\ r.kind \notin {"TableNotFound", "EngineError"}

\* C1: insertRow with a value whose kind does not match the declared type of
\* its column (and no required column missing) returns InvalidColumnType
\* naming the first such column, and adds no row.
C1_WrongKindIsRejected ==
  [][(/\ InsertRowSettled(ret')
      /\ MissingRequiredIn(ret'.table, ret'.data) = {}
      /\ WrongKindIn(ret'.table, ret'.data) # {})
     => (/\ ret'.kind = "InvalidColumnType"
         /\ ret'.column = ret'.table.columns[First(WrongKindIn(ret'.table, ret'.data))].name
         /\ phys' = phys)]_vars

\* C2: insertRow with a non-integral number for an int column (every other
\* column being valid) returns InvalidColumnType for that column with the
\* actual kind "real", and stores nothing.
C2_FractionalForIntIsRejected ==
  [][(/\ InsertRowSettled(ret')
      /\ MissingRequiredIn(ret'.table, ret'.data) = {}
      /\ FractionalIn(ret'.table, ret'.data) # {}
      /\ WrongKindIn(ret'.table, ret'.data) = FractionalIn(ret'.table, ret'.data))
     => (/\ ret'.kind = "InvalidColumnType"
         /\ ret'.column = ret'.table.columns[First(FractionalIn(ret'.table, ret'.data))].name
         /\ ret'.got = "real"
         /\ phys' = phys)]_vars

\* C3: insertRow on a registered table with a required column missing from
\* the row data returns MissingRequiredColumn naming the first such column;
\* no statement is issued and the physical tables are unchanged.
C3_MissingRequiredIsRejected ==
  /\ [](\A i \in 1..Len(queue) :
          queue[i].stmt.kind = "insert"
            => MissingRequiredIn(queue[i].call.table, queue[i].call.data) = {})
  /\ [][(/\ ret'.op = "insertRow"
         /\ ret'.kind # "TableNotFound"
         /\ MissingRequiredIn(ret'.table, ret'.data) # {})
        => (/\ ret'.kind = "MissingRequiredColumn"
            /\ ret'.column = ret'.table.columns[First(MissingRequiredIn(ret'.table, ret'.data))].name
            /\ queue' = queue
            /\ phys' = phys)]_vars

\* C3 witness: a table that holds a row refuses a row without its required column b
C3_Witness ==
  /\ ret.op = "insertRow"
  /\ ret.kind = "MissingRequiredColumn"
  /\ ret.column = "b"
  /\ "n" \in DOMAIN ret.data
  /\ Exists(ret.name)
  /\ Len(phys[Fold(ret.name)].rows) = 1

\* the stored form of a present value of a logical type
StoredMatches(type, v) ==
  CASE type = "boolean" -> v.kind = "number" /\ v.n \in {0, 2}
    [] type = "int" -> v.kind = "number" /\ v.n % 2 = 0
    [] type = "real" -> v.kind = "number"
    [] OTHER -> v.kind = "string"

\* C4: every row stored in a registered table has, for each required column,
\* a present value (not NULL, not the NULL sentinel) of the declared type.
C4_StoredRequiredColumnsPresent ==
  \A i \in 1..Len(tables) :
    Exists(tables[i].name) =>
      \A r \in 1..Len(phys[Fold(tables[i].name)].rows) :
        \A c \in 1..Len(tables[i].columns) :
          LET column == tables[i].columns[c]
              vals == phys[Fold(tables[i].name)].rows[r].vals
          IN (column.required /\ column.name \in DOMAIN vals)
               => /\ vals[column.name] \notin {Null, Str("NULL")}
                  /\ StoredMatches(column.type, vals[column.name])

\* C5: createTable on a name that is in the registry when it is called fails
\* TableAlreadyExists whatever the columns, and leaves the registry unchanged.
C5_ExistingNameIsAlreadyExists ==
  [][(calls' # calls /\ ret'.op = "createTable" /\ IsRegistered(ret'.name))
     => (ret'.kind = "TableAlreadyExists" /\ tables' = tables)]_vars

HasIdColumn(columns) == \E i \in 1..Len(columns) : columns[i].name = "id"

HasRepeatedColumn(columns) ==
  \E i, j \in 1..Len(columns) : i # j /\ columns[i].name = columns[j].name

\* C6: createTable with a column named "id" or with a repeated column name
\* fails (ReservedColumnName for "id"; otherwise DuplicateColumnName, or
\* TableAlreadyExists for a registered name); no statement is issued for such
\* a model, no physical table has such columns, the registry is unchanged.
C6_ReservedAndDuplicateRejected ==
  /\ [](\A i \in 1..Len(queue) :
          queue[i].stmt.kind = "create"
            => /\ ~HasIdColumn(queue[i].call.table.columns)
               /\ ~HasRepeatedColumn(queue[i].call.table.columns))
  /\ [](\A t \in DOMAIN phys : ~HasRepeatedColumn(phys[t].cols))
  /\ [][(/\ ret'.op = "createTable"
         /\ HasIdColumn(ret'.columns) \/ HasRepeatedColumn(ret'.columns))
        => (/\ ret'.kind = IF HasIdColumn(ret'.columns) THEN "ReservedColumnName"
                           ELSE IF IsRegistered(ret'.name) THEN "TableAlreadyExists"
                           ELSE "DuplicateColumnName"
            /\ UNCHANGED <<tables, phys, queue>>)]_vars

\* C6 witness: a model with a repeated column is refused while another table exists
C6_Witness ==
  /\ ret.op = "createTable"
  /\ ret.kind = "DuplicateColumnName"
  /\ HasRepeatedColumn(ret.columns)
  /\ Len(tables) = 1

NameCount(name) == Cardinality({i \in 1..Len(tables) : tables[i].name = name})

\* C7: when createTable returns success and no other model of the registry has
\* its name, lookup of the name gives the declared columns, in order, and
\* the physical table exists with the identifier as its first column.
C7_LookupReturnsDeclared ==
  (ret.op = "createTable" /\ ret.kind = "ok" /\ NameCount(ret.name) <= 1)
    => /\ IsRegistered(ret.name)
       /\ getTableModel(ret.name) = TableModel(ret.name, ret.columns)
       /\ Exists(ret.name)
       /\ phys[Fold(ret.name)].cols[1].name = "id"

\* C7 witness: a model of two columns has been created and is the only one of its name
C7_Witness ==
  /\ ret.op = "createTable"
  /\ ret.kind = "ok"
  /\ Len(ret.columns) = 2
  /\ NameCount(ret.name) = 1
  /\ Len(tables) = 2

\* C8: a name enters the registry only when a CREATE TABLE for it completes and
\* leaves it only when a DROP TABLE for it completes; insertRow, insertRows,
\* getTable, deleteRowByID and dropTable called on a name that is not in the
\* registry fail TableNotFound and change nothing.
C8_UnregisteredFailsTableNotFound ==
  [][/\ \A name \in TableNames :
          /\ (~IsRegistered(name) /\ IsRegistered(name)')
               => \E i \in 1..Len(queue) :
                    /\ queue[i].stmt.kind = "create" /\ queue[i].stmt.name = name
                    /\ queue' = Remove(queue, i)
          /\ (IsRegistered(name) /\ ~IsRegistered(name)')
               => \E i \in 1..Len(queue) :
                    /\ queue[i].stmt.kind = "drop" /\ queue[i].stmt.name = name
                    /\ queue' = Remove(queue, i)
     /\ (/\ calls' # calls
         /\ ~IsRegistered(ret'.name)
         /\ ret'.op \in {"insertRow", "insertRows", "getTable", "deleteRowByID", "dropTable"})
        => (ret'.kind = "TableNotFound" /\ UNCHANGED <<tables, phys, queue>>)]_vars

\* C9: when no statement is in flight, every model of the registry has its
\* physical table and every physical table has a model in the registry.
C9_RegistryMatchesEngine ==
  queue = <<>> =>
    /\ \A i \in 1..Len(tables) : Exists(tables[i].name)
    /\ \A t \in DOMAIN phys : \E i \in 1..Len(tables) : Fold(tables[i].name) = t

\* C10: no two models of the registry have the same name.
C10_RegistryNamesUnique ==
  \A i, j \in 1..Len(tables) : i # j => tables[i].name # tables[j].name

\* the models of a batch that fail a check of createTable against the registry
FailingModels(models) ==
  {k \in 1..Len(models) : createTableCheck(models[k]) # "ok"}

\* C11: createTables returns success for a batch none of whose models fails;
\* when a model fails, the result is the failure of the first such model and
\* no statement is issued for that model or for a later one.
C11_BatchStopsAtFirstFailure ==
  [][(calls' # calls /\ ret'.op = "createTables")
     => IF FailingModels(ret'.models) = {}
        THEN ret'.kind = "ok"
        ELSE /\ ret'.kind = createTableCheck(ret'.models[First(FailingModels(ret'.models))])
             /\ Len(queue') - Len(queue) < First(FailingModels(ret'.models))]_vars

\* the operations that change the engine or the registry
AwaitedOps ==
  {"createTable", "createTables", "insertRow", "insertRows", "dropTable", "deleteRowByID"}

NamedIn(registry, name) == \E i \in 1..Len(registry) : registry[i].name = name

\* C12: the step that delivers the result of an operation leaves no statement
\* in flight that was not in flight before it, and the registry is up to
\* date: a created table (every model of a created batch) is found by lookup,
\* a dropped table is not.
C12_ResultAfterCompletion ==
  [][ret'.op \in AwaitedOps
     => /\ \A i \in 1..Len(queue') : \E j \in 1..Len(queue) : queue'[i] = queue[j]
        /\ (ret'.op = "createTable" /\ ret'.kind = "ok") => NamedIn(tables', ret'.name)
        /\ (ret'.op = "createTables" /\ ret'.kind = "ok")
             => \A k \in 1..Len(ret'.models) : NamedIn(tables', ret'.models[k].name)
        /\ (ret'.op = "dropTable" /\ ret'.kind = "ok") => ~NamedIn(tables', ret'.name)]_vars

\* the declared column of a name
ColumnOf(table, name) ==
  table.columns[CHOOSE i \in 1..Len(table.columns) : table.columns[i].name = name]

\* the number of elements of the batch that were stored when the result came
StoredCount(r) == IF r.kind = "ok" THEN Len(r.batch) ELSE r.idx - 1

\* the statement at the end of the queue was handed to the engine by this step
IssuesStatement ==
  /\ queue' # <<>>
  /\ queue' # queue
  /\ \A i \in 1..Len(queue) : queue' # Remove(queue, i)

\* C13: insertRows issues the statement of element k only when it is called
\* (k = 1) or from the callback of the successful insert of element k - 1; a
\* failure is delivered for the element it belongs to, which stores nothing;
\* the rows stored before it are kept and no further statement is issued; success is
\* delivered after the last element.  When insertRows is the only operation
\* since the table was created, the table holds exactly the elements before
\* the failing one (all of them on success), in list order, with ids 1, 2, ...
C13_BatchInsertInOrder ==
  /\ [][(IssuesStatement /\ queue'[Len(queue')].call.op = "insertRows")
        => LET at == queue'[Len(queue')].call IN
           \/ at.idx = 1 /\ calls' # calls /\ phys' = phys
           \/ /\ at.idx > 1
              /\ calls' = calls
              /\ \E i \in 1..Len(queue) :
                   /\ queue[i].call.op = "insertRows"
                   /\ queue[i].call.batch = at.batch
                   /\ queue[i].call.idx = at.idx - 1
                   /\ queue' = Append(Remove(queue, i), queue'[Len(queue')])
                   /\ Len(phys'[Fold(at.name)].rows) = Len(phys[Fold(at.name)].rows) + 1]_vars
  /\ [][ret'.op = "insertRows"
        => /\ ~IssuesStatement
           /\ ret'.kind = "ok" => ret'.idx = Len(ret'.batch)
           /\ ret'.kind # "ok"
                => /\ ret'.idx \in 1..Len(ret'.batch)
                   /\ ret'.data = ret'.batch[ret'.idx]
                   /\ \/ phys' = phys
                      \/ \E i \in 1..Len(queue) :
                           /\ queue[i].call.op = "insertRows"
                           /\ queue[i].call.batch = ret'.batch
                           /\ queue[i].call.idx = ret'.idx - 1
                           /\ queue' = Remove(queue, i)
                           /\ phys' = [phys EXCEPT ![Fold(ret'.name)].rows =
                                         Append(@, NewRow(Fold(ret'.name), queue[i].stmt))]]_vars
  /\ []((calls = 2 /\ ret.op = "insertRows" /\ Exists(ret.name))
        => LET rows == phys[Fold(ret.name)].rows IN
           /\ Len(rows) = StoredCount(ret)
           /\ \A j \in 1..Len(rows) :
                /\ rows[j].id = j
                /\ \A c \in DOMAIN rows[j].vals :
                     rows[j].vals[c] =
                       Bind(Encode(ColumnOf(ret.table, c), DataColumn(ret.batch[j], c))))

\* C13 witness: the second element of a batch fails after the first was stored
C13_Witness ==
  /\ ret.op = "insertRows"
  /\ ret.kind = "MissingRequiredColumn"
  /\ ret.idx = 2
  /\ Exists(ret.name)
  /\ Len(phys[Fold(ret.name)].rows) = 1
  /\ phys[Fold(ret.name)].rows[1].vals["b"] = Num(2)

\* C15: no query with a limit below 1 is ever handed to the engine; getTable
\* on a registered table with a supplied limit of 0 or less fails InvalidLimit
\* when it is called and changes nothing; InvalidLimit is the result of such
\* a call only, never of a call that supplies no limit.
C15_InvalidLimitIsRejected ==
  /\ [](\A i \in 1..Len(queue) :
          (queue[i].stmt.kind = "select" /\ queue[i].stmt.select.limited)
            => queue[i].stmt.select.limit >= 1)
  /\ [][(/\ ret'.op = "getTable"
         /\ ret'.kind # "TableNotFound"
         /\ ret'.args.hasLimit
         /\ ret'.args.limit <= 0)
        => (/\ ret'.kind = "InvalidLimit"
            /\ calls' # calls
            /\ UNCHANGED <<tables, phys, queue>>)]_vars
  /\ [](ret.kind = "InvalidLimit"
          => (ret.op = "getTable" /\ ret.args.hasLimit /\ ret.args.limit <= 0))

\* C15 witness: a negative limit is refused on a registered table
C15_Witness ==
  /\ ret.op = "getTable"
  /\ ret.kind = "InvalidLimit"
  /\ ret.args.limit < 0
  /\ IsRegistered(ret.name)

\* the names of the declared columns of a table
Declared(table) == {table.columns[i].name : i \in 1..Len(table.columns)}

\* the requested columns that are not declared, in the order of the request
Undeclared(table, args) ==
  SelectSeq(IF args.hasColumns THEN args.columns ELSE <<>>,
            LAMBDA c : c \notin Declared(table))

\* the call names a sort column that is not declared
UndeclaredSort(table, args) ==
  args.hasSort /\ args.sortColumn # "" /\ args.sortColumn \notin Declared(table)

StoredRowOf(rows, id) == rows[CHOOSE i \in 1..Len(rows) : rows[i].id = id]

\* the identifier of a row object returned by getTable
IdOf(row) == row["id"].n \div 2

\* row a comes no later than row b in the order the call asks for
NoLater(a, b, args) ==
  IF args.hasSort /\ args.sortColumn # ""
  THEN IF args.sortType = "DESC"
       THEN ~SqlLess(a.vals[args.sortColumn], b.vals[args.sortColumn])
       ELSE ~SqlLess(b.vals[args.sortColumn], a.vals[args.sortColumn])
  ELSE a.id <= b.id

Min(a, b) == IF a < b THEN a ELSE b

\* C17: a successful getTable returns rows of the table, none twice, each with
\* the key "id" and the requested columns (all declared columns when omitted);
\* all rows of the table without a limit, min(n, rowCount) of them with limit
\* n; in ascending identifier order without a sort, else ordered by the stored
\* value of the sort column in the requested direction; and a row left out by
\* the limit comes no earlier in that order than a returned one.
C17_ProjectionOrderLimit ==
  /\ [](\A i \in 1..Len(queue) :
          (queue[i].stmt.kind = "select" /\ ~queue[i].call.args.hasColumns)
            => queue[i].stmt.select.columns = ColumnNames(queue[i].call.table))
  /\ [][(ret'.op = "getTable" /\ ret'.kind = "ok")
        => LET rows == ret'.rows
               stored == phys[Fold(ret'.name)].rows
               args == ret'.args
               returned == {IdOf(rows[j]) : j \in 1..Len(rows)}
           IN
           /\ phys' = phys
           /\ \A j \in 1..Len(rows) :
                /\ DOMAIN rows[j] =
                     {"id"} \cup (IF args.hasColumns
                                  THEN {args.columns[c] : c \in 1..Len(args.columns)}
                                  ELSE Declared(ret'.table))
                /\ \E k \in 1..Len(stored) : stored[k].id = IdOf(rows[j])
           /\ Cardinality(returned) = Len(rows)
           /\ Len(rows) = IF args.hasLimit THEN Min(args.limit, Len(stored)) ELSE Len(stored)
           /\ \A j, k \in 1..Len(rows) :
                j < k => NoLater(StoredRowOf(stored, IdOf(rows[j])),
                                 StoredRowOf(stored, IdOf(rows[k])), args)
           /\ (~args.hasSort) =>
                \A j, k \in 1..Len(rows) : j < k => IdOf(rows[j]) < IdOf(rows[k])
           /\ \A k \in 1..Len(stored) :
                stored[k].id \notin returned
                  => \A j \in 1..Len(rows) :
                       NoLater(StoredRowOf(stored, IdOf(rows[j])), stored[k], args)]_vars

\* C17 witness: of two rows, the limit keeps the one that is second by
\* identifier and first by the sort column
C17_Witness ==
  /\ ret.op = "getTable"
  /\ ret.kind = "ok"
  /\ ret.args.hasSort
  /\ ret.args.hasLimit
  /\ Len(ret.rows) = 1
  /\ IdOf(ret.rows[1]) = 2
  /\ Len(phys[Fold(ret.name)].rows) = 2

\* the table of the statement has a row of its identifier
RowMatches(stmt) ==
  /\ Exists(stmt.name)
  /\ \E k \in 1..Len(phys[Fold(stmt.name)].rows) : phys[Fold(stmt.name)].rows[k].id = stmt.id

\* C18: deleteRowByID fails RowNotFound exactly when its count finds no row of
\* the identifier, and then the rows are unchanged and no DELETE is issued; a
\* DELETE is issued only for an identifier the count found; a successful
\* DELETE of an identifier the table holds leaves the table without that row,
\* with every other row in place and one row fewer.
C18_DeleteRemovesExactlyOne ==
  /\ [][ret'.kind = "RowNotFound"
        => \E i \in 1..Len(queue) :
             /\ queue[i].stmt.kind = "count"
             /\ queue[i].call.op = "deleteRowByID"
             /\ ret'.op = "deleteRowByID"
             /\ ~RowMatches(queue[i].stmt)
             /\ queue' = Remove(queue, i)
             /\ phys' = phys]_vars
  /\ [][\A i \in 1..Len(queue) :
          (queue[i].stmt.kind = "count" /\ queue' = Remove(queue, i) /\ ~RowMatches(queue[i].stmt))
            => ret'.kind \in {"RowNotFound", "EngineError"}]_vars
  /\ [][(IssuesStatement /\ queue'[Len(queue')].stmt.kind = "delete")
        => \E i \in 1..Len(queue) :
             /\ queue[i].stmt.kind = "count"
             /\ queue[i].stmt.id = queue'[Len(queue')].stmt.id
             /\ RowMatches(queue[i].stmt)
             /\ phys' = phys]_vars
  /\ [][(/\ ret'.op = "deleteRowByID"
         /\ ret'.kind = "ok"
         /\ RowMatches(RowStatement("delete", ret'.name, ret'.id)))
        => LET before == phys[Fold(ret'.name)].rows
               after == phys'[Fold(ret'.name)].rows
           IN
           /\ Len(after) = Len(before) - 1
           /\ \A k \in 1..Len(after) : after[k].id # ret'.id
           /\ \A k \in 1..Len(before) :
                before[k].id # ret'.id => \E m \in 1..Len(after) : after[m] = before[k]
           /\ \A t \in DOMAIN phys : t # Fold(ret'.name) => phys'[t] = phys[t]]_vars

\* C18 witness: one of two rows has been deleted and the other is still there
C18_Witness ==
  /\ ret.op = "deleteRowByID"
  /\ ret.kind = "ok"
  /\ Exists(ret.name)
  /\ Len(phys[Fold(ret.name)].rows) = 1
  /\ phys[Fold(ret.name)].rows[1].id # ret.id

\* the value a caller gave for a column, an absent one reading as null
Inserted(data, name) ==
  IF name \in DOMAIN data /\ data[name] # Undefined THEN data[name] ELSE Null

\* the row object getTable returns for a stored row, all columns requested
ReadBack(table, row) ==
  [k \in {"id"} \cup Declared(table) |->
     IF k = "id" THEN Num(2 * row.id) ELSE Decode(table, k, row.vals[k])]

\* C19: a successful insertRow appends one row, with identifier 1 on an empty
\* table and a new identifier otherwise, which reads back with every declared
\* column equal to the inserted value; an insertRow that fails validation
\* changes neither the rows nor the statements in flight; getTable with no
\* arguments returns exactly the stored rows, each with its identifier.
C19_InsertThenRead ==
  /\ [][(ret'.op = "insertRow" /\ ret'.kind = "ok")
        => LET before == phys[Fold(ret'.name)].rows
               after == phys'[Fold(ret'.name)].rows
               new == after[Len(after)]
           IN
           /\ Len(after) = Len(before) + 1
           /\ SubSeq(after, 1, Len(before)) = before
           /\ before = <<>> => new.id = 1
           /\ \A k \in 1..Len(before) : before[k].id # new.id
           /\ \A c \in Declared(ret'.table) :
                ReadBack(ret'.table, new)[c] = Inserted(ret'.data, c)]_vars
  /\ [][(/\ ret'.op = "insertRow"
         /\ ret'.kind \in {"TableNotFound", "MissingRequiredColumn", "InvalidColumnType"})
        => UNCHANGED <<tables, phys, queue>>]_vars
  /\ [][(/\ ret'.op = "getTable"
         /\ ret'.kind = "ok"
         /\ ret'.args = NoArgs)
        => LET stored == phys[Fold(ret'.name)].rows IN
           /\ Len(ret'.rows) = Len(stored)
           /\ \A j \in 1..Len(stored) : ret'.rows[j] = ReadBack(ret'.table, stored[j])]_vars

\* the value is a mapping or an ordered sequence, not a text
IsStructured(v) == v.kind \in {"object", "array"}

\* C14: an INSERT of insertRow or insertRows that stores an object value in an
\* object column, or an array value in an array column, stores a row that reads
\* back with that column equal to the inserted value; getTable returns the stored rows
\* read back so, and what it returns for a column of type object or array is
\* a mapping, a sequence or null, never a text.
C14_StructuredRoundTrip ==
  /\ [][(queue # <<>> /\ queue[1].stmt.kind = "insert" /\ phys' # phys)
        => LET after == phys'[Fold(queue[1].stmt.name)].rows
               new == after[Len(after)]
               table == queue[1].call.table
               data == queue[1].call.data
           IN \A c \in Declared(table) :
                (/\ ColumnOf(table, c).type \in {"object", "array"}
                 /\ c \in DOMAIN data
                 /\ data[c].kind = ColumnOf(table, c).type)
                  => ReadBack(table, new)[c] = data[c]]_vars
  /\ [][(ret'.op = "getTable" /\ ret'.kind = "ok")
        => LET stored == phys[Fold(ret'.name)].rows IN
           /\ Len(ret'.rows) = Len(stored)
           /\ \A j \in 1..Len(stored) :
                /\ ret'.rows[j] = ReadBack(ret'.table, stored[j])
                /\ \A c \in Declared(ret'.table) :
                     ColumnOf(ret'.table, c).type \in {"object", "array"}
                       => \/ ret'.rows[j][c] = Null
                          \/ ret'.rows[j][c].kind = ColumnOf(ret'.table, c).type]_vars

\* C14 witness: the object and the array of an inserted row have been read back
C14_Witness ==
  /\ ret.op = "getTable"
  /\ ret.kind = "ok"
  /\ Len(ret.rows) = 1
  /\ {"o", "a"} \subseteq DOMAIN ret.rows[1]
  /\ ret.rows[1]["o"] = Obj("{\"hello\":\"world\"}")
  /\ ret.rows[1]["a"] = Arr("[1,2,3]")

\* C20: whatever an operation delivers is a success or a failure result: its
\* promise is never rejected by a thrown exception and is never left unsettled.
C20_NeverThrows ==
  ret.kind \notin {"Rejected", "NeverSettled"}

\* the rule table of the row validator, an absent value included
RuleTable(column, v) ==
  IF v = Undefined THEN ~column.required ELSE KindMatches(column.type, v)

\* C21: the validator answers valid exactly when the rule table allows the
\* value for the column: an absent value iff the column is not required, and
\* a present one iff its kind is the kind of the declared type.
C21_ValidatorFollowsRuleTable ==
  ret.op = "isDataTypesValid"
    => (ret.kind = "valid" <=> RuleTable(ret.columns[1], ret.data[ret.name]))

\* the physical type of each logical type
PhysicalType(type) ==
  CASE type = "boolean" -> "BOOLEAN"
    [] type = "string" -> "TEXT"
    [] type = "int" -> "INTEGER"
    [] type = "real" -> "REAL"
    [] type = "date" -> "TEXT"
    [] type = "object" -> "TEXT"
    [] type = "array" -> "TEXT"
    [] OTHER -> "TEXT"

\* C22: the type mapper gives the physical type of every logical type (text
\* for one it does not know), and every CREATE TABLE handed to the engine
\* declares the identifier as primary key, then each declared column in
\* order with the physical type of its logical type, NOT NULL iff required.
C22_CreateStatementUsesMapper ==
  /\ \A type \in ValidatorTypes : columnTypeToSqlType(type).value = PhysicalType(type)
  /\ \A i \in 1..Len(queue) :
       queue[i].stmt.kind = "create"
         => LET cols == queue[i].stmt.cols
                declared == queue[i].call.table.columns
            IN /\ Len(cols) = Len(declared) + 1
               /\ cols[1] = PhysColumn("id", "INTEGER PRIMARY KEY", FALSE)
               /\ \A c \in 1..Len(declared) :
                    cols[c + 1] = PhysColumn(declared[c].name,
                                             PhysicalType(declared[c].type),
                                             declared[c].required)

\* the step in which the engine answers the statement of an awaited
\* createTable or dropTable
AnswersTableStatement ==
  /\ Len(queue') = Len(queue) - 1
  /\ ret'.op \in {"createTable", "dropTable"}

\* C23: the callback of the statement of createTable or dropTable returns
\* success or EngineError; with EngineError the registry (and the physical
\* tables) are exactly as before the callback, so createTable registers its
\* model and dropTable evicts one only on success.
C23_EngineFailureLeavesRegistry ==
  [][AnswersTableStatement
       => /\ ret'.kind \in {"ok", "EngineError"}
          /\ ret'.kind = "EngineError" => tables' = tables /\ phys' = phys
          /\ ret'.kind = "ok" /\ ret'.op = "createTable"
               => tables' = Append(tables, ret'.table)
          /\ ret'.kind = "ok" /\ ret'.op = "dropTable"
               => ~\E i \in 1..Len(tables') : tables'[i].name = ret'.name]_vars

\* a dropTable of a registered table has failed in the engine
C23_Witness ==
  /\ ret.op = "dropTable"
  /\ ret.kind = "EngineError"
  /\ IsRegistered(ret.name)

\* the registry without the models at the positions in gone
RECURSIVE Kept(_, _, _)
Kept(models, gone, i) ==
  IF i > Len(models) THEN <<>>
  ELSE (IF i \in gone THEN <<>> ELSE <<models[i]>>) \o Kept(models, gone, i + 1)

\* C24: a successful dropTable(name) removes exactly one model, the one
\* named name, and its physical table; every other registered model keeps
\* its place, its physical table and its rows; and a createTable that then
\* succeeds on a name without a physical table yields an empty table.
C24_DropRemovesOnlyItsTable ==
  [][(ret'.op = "dropTable" /\ ret'.kind = "ok"
        => /\ \E i \in 1..Len(tables) :
                /\ tables[i].name = ret'.name
                /\ tables' = Kept(tables, {i}, 1)
           /\ Fold(ret'.name) \notin DOMAIN phys'
           /\ \A i \in 1..Len(tables') :
                Exists(tables'[i].name)
                  => /\ Fold(tables'[i].name) \in DOMAIN phys'
                     /\ phys'[Fold(tables'[i].name)] = phys[Fold(tables'[i].name)])
     /\
     (ret'.op = "createTable" /\ ret'.kind = "ok" /\ ~Exists(ret'.name)
        => /\ Fold(ret'.name) \in DOMAIN phys'
           /\ phys'[Fold(ret'.name)].rows = <<>>)]_vars

ScalarTypes == {"string", "boolean", "int", "real", "date"}

\* C25: the row stored by an insertRow reads back, in every scalar column
\* given a value of the declared kind or none, with the inserted value (null
\* for none), so that the text "NULL" in a string column reads back as that
\* text; and getTable returns the stored rows read back so.
C25_ScalarRoundTrip ==
  /\ [][(/\ queue # <<>>
         /\ queue[1].stmt.kind = "insert"
         /\ queue[1].call.op = "insertRow"
         /\ phys' # phys)
        => LET after == phys'[Fold(queue[1].stmt.name)].rows
               new == after[Len(after)]
               table == queue[1].call.table
               data == queue[1].call.data
           IN \A c \in Declared(table) :
                (/\ ColumnOf(table, c).type \in ScalarTypes
                 /\ c \in DOMAIN data => KindMatches(ColumnOf(table, c).type, data[c]))
                  => ReadBack(table, new)[c] = Inserted(data, c)]_vars
  /\ [][(ret'.op = "getTable" /\ ret'.kind = "ok")
        => LET stored == phys[Fold(ret'.name)].rows IN
           /\ Len(ret'.rows) = Len(stored)
           /\ \A j \in 1..Len(stored) :
                ret'.rows[j] = ReadBack(ret'.table, stored[j])]_vars

\* C26: a deleteRowByID returns success only in a step in which its DELETE
\* removed a row of the table, so that of two calls for the same identifier
\* at most one returns success.
C26_DeleteSucceedsOnlyIfItRemoved ==
  [][(ret'.op = "deleteRowByID" /\ ret'.kind = "ok")
       => Len(phys'[Fold(ret'.name)].rows) = Len(phys[Fold(ret'.name)].rows) - 1]_vars

====
